---- MODULE Spec2Model ----
(***************************************************************************)
(* A model of spybase.py: the SpyBase mixin, which at class-definition     *)
(* time replaces the members of the wrapped class by logging wrappers, and *)
(* the class-level call log the wrappers append to.                        *)
(*                                                                         *)
(* State: the spy classes defined so far (their mro and their __dict__     *)
(* after __init_subclass__ ran), the shared list SpyBase._calls, the list  *)
(* of the spy class that declares a _calls of its own, one live instance,  *)
(* the list the caller kept from an earlier get_calls, and a record of the *)
(* last statement executed with its outcome.                               *)
(*                                                                         *)
(* The module also models git_maker.py: create_git_repo as a process that  *)
(* runs one git command or writes one file per step (variable git).        *)
(***************************************************************************)
EXTENDS Integers, Sequences, FiniteSets, TLC

VARIABLES program, classes, obj, calls, own_calls, held, last, git

vars == <<program, classes, obj, calls, own_calls, held, last, git>>

\* the variables of the spy classes and their log
spy_vars == <<program, classes, obj, calls, own_calls, held, last>>

(***************************************************************************)
(* Bounds of the exploration.                                              *)
(***************************************************************************)
\* longest log explored by the programs that call with every argument shape
MaxCalls == 2
\* longest log explored by the programs that call with one argument shape
MaxSeq == 3

(***************************************************************************)
(* Python values, results and errors.                                      *)
(***************************************************************************)
IntV(n) == [t |-> "int", v |-> n]

NoneV == [t |-> "None", v |-> 0]

\* the list object SpyBase._calls, as a value handed to a caller
CallsList == [t |-> "SpyBase._calls", v |-> 0]

\* a list object made by copying another
CopiedList == [t |-> "list(_calls)", v |-> 0]

\* the list object a spy class body creates with "_calls = []"
OwnCallsList == [t |-> "OwnLogSpy._calls", v |-> 0]

Return(v) == [kind |-> "return", val |-> v, exc |-> ""]

Raise(e) == [kind |-> "raise", val |-> NoneV, exc |-> e]

\* **kwargs: a set of <<keyword, value>> pairs with distinct keywords
NoKwargs == {}

Keys(kwargs) == {p[1] : p \in kwargs}

KwValue(kwargs, key) == (CHOOSE p \in kwargs : p[1] = key)[2]

(***************************************************************************)
(* CallType and CallInfo.                                                  *)
(***************************************************************************)
INSTANCE_METHOD == "method"

CLASS_METHOD == "classmethod"

STATIC_METHOD == "staticmethod"

PROPERTY == "property"

CallInfo(type, class_name, name, args, kwargs) ==
    [type |-> type, class_name |-> class_name, name |-> name,
     args |-> args, kwargs |-> kwargs]

(***************************************************************************)
(* Objects found in a class __dict__.                                      *)
(***************************************************************************)
\* a plain function object; body names its code
Def(body) == [tag |-> "def", body |-> body]

NoneF == [tag |-> "None"]

Function(f) == [kind |-> "function", func |-> f]

StaticMethod(f) == [kind |-> "staticmethod", func |-> f]

ClassMethod(f) == [kind |-> "classmethod", func |-> f]

Property(fget, fset, fdel) ==
    [kind |-> "property", fget |-> fget, fset |-> fset, fdel |-> fdel]

Data(v) == [kind |-> "data", val |-> v]

\* name.startswith("__"), over the member names that occur in the model
DunderNames == {"__init__", "__repr__"}

StartsWithDunder(name) == name \in DunderNames

(***************************************************************************)
(* The classes.  MyTestClass is the demo class of test_spybase.py; Probe   *)
(* is a second wrapped class with a raising method, a read-only property,  *)
(* a property whose setter raises, a dunder method and a class attribute;  *)
(* Nest is a wrapped class whose members look at the log while they run,   *)
(* and one of whose methods calls another.                                 *)
(***************************************************************************)
MyTestClassDict ==
    [n \in {"__init__", "instance_method_normal", "instance_method_towrap",
            "static_method_normal", "static_method_towrap",
            "class_method_normal", "class_method_towrap",
            "property_normal", "property_towrap"} |->
       CASE n = "__init__" -> Function(Def("MyTestClass.__init__"))
         [] n = "instance_method_normal" ->
                Function(Def("MyTestClass.instance_method_normal"))
         [] n = "instance_method_towrap" ->
                Function(Def("MyTestClass.instance_method_towrap"))
         [] n = "static_method_normal" ->
                StaticMethod(Def("MyTestClass.static_method_normal"))
         [] n = "static_method_towrap" ->
                StaticMethod(Def("MyTestClass.static_method_towrap"))
         [] n = "class_method_normal" ->
                ClassMethod(Def("MyTestClass.class_method_normal"))
         [] n = "class_method_towrap" ->
                ClassMethod(Def("MyTestClass.class_method_towrap"))
         [] n = "property_normal" ->
                Property(Def("MyTestClass.property_normal.fget"),
                         Def("MyTestClass.property_normal.fset"),
                         Def("MyTestClass.property_normal.fdel"))
         [] n = "property_towrap" ->
                Property(Def("MyTestClass.property_towrap.fget"),
                         Def("MyTestClass.property_towrap.fset"),
                         Def("MyTestClass.property_towrap.fdel"))]

ProbeDict ==
    [n \in {"__repr__", "VERSION", "boom", "ro", "level"} |->
       CASE n = "__repr__" -> Function(Def("Probe.__repr__"))
         [] n = "VERSION" -> Data(IntV(3))
         [] n = "boom" -> Function(Def("Probe.boom"))
         [] n = "ro" -> Property(Def("Probe.ro.fget"), NoneF, NoneF)
         [] n = "level" -> Property(Def("Probe.level.fget"),
                                    Def("Probe.level.fset"), NoneF)]

NestDict ==
    [n \in {"outer", "inner", "s_seen", "c_seen", "seen"} |->
       CASE n = "outer" -> Function(Def("Nest.outer"))
         [] n = "inner" -> Function(Def("Nest.inner"))
         [] n = "s_seen" -> StaticMethod(Def("Nest.s_seen"))
         [] n = "c_seen" -> ClassMethod(Def("Nest.c_seen"))
         [] n = "seen" -> Property(Def("Nest.seen.fget"), Def("Nest.seen.fset"),
                                   Def("Nest.seen.fdel"))]

\* a wrapped class that inherits from MyTestClass and declares one method
ChildDict == [n \in {"child_method"} |-> Function(Def("Child.child_method"))]

ObjectDict ==
    [n \in {"__init__", "__repr__"} |->
       CASE n = "__init__" -> Function(Def("object.__init__"))
         [] n = "__repr__" -> Function(Def("object.__repr__"))]

SpyBaseDict ==
    [n \in {"_calls", "get_calls", "clear_calls"} |->
       CASE n = "_calls" -> Data(CallsList)
         [] n = "get_calls" -> ClassMethod(Def("SpyBase.get_calls"))
         [] n = "clear_calls" -> ClassMethod(Def("SpyBase.clear_calls"))]

NoMembers == [n \in {} |-> Data(NoneV)]

\* the class body of SpyTestClass: every *_towrap member is overridden
SpyTestClassOwn ==
    [n \in {"instance_method_towrap", "static_method_towrap",
            "class_method_towrap", "property_towrap"} |->
       CASE n = "instance_method_towrap" ->
                Function(Def("SpyTestClass.instance_method_towrap"))
         [] n = "static_method_towrap" ->
                StaticMethod(Def("SpyTestClass.static_method_towrap"))
         [] n = "class_method_towrap" ->
                ClassMethod(Def("SpyTestClass.class_method_towrap"))
         [] n = "property_towrap" ->
                Property(Def("SpyTestClass.property_towrap.fget"),
                         Def("SpyTestClass.property_towrap.fset"),
                         Def("SpyTestClass.property_towrap.fdel"))]

\* class bodies that redefine only the read accessor of property_normal:
\* with @property (no other accessor), and with
\* @MyTestClass.property_normal.getter (the other accessors are copied)
GetterOnlySpyOwn ==
    [n \in {"property_normal"} |->
       Property(Def("GetterOnlySpy.property_normal.fget"), NoneF, NoneF)]

GetterKeepSpyOwn ==
    [n \in {"property_normal"} |->
       Property(Def("GetterKeepSpy.property_normal.fget"),
                Def("MyTestClass.property_normal.fset"),
                Def("MyTestClass.property_normal.fdel"))]

\* a class body that redefines a class method as a static method
MismatchSpyOwn ==
    [n \in {"class_method_normal"} |->
       StaticMethod(Def("MismatchSpy.class_method_normal"))]

\* the class body of a class derived from SpyTestClass, with a class method
\* of its own
DerivedSpyOwn ==
    [n \in {"class_method_towrap"} |->
       ClassMethod(Def("DerivedSpy.class_method_towrap"))]

\* a class body that gives the spy class a list of its own
OwnLogSpyOwn == [n \in {"_calls"} |-> Data(OwnCallsList)]

SpyClasses == {"SpyTestClass", "ProbeSpy", "GetterOnlySpy", "GetterKeepSpy",
               "MismatchSpy", "Alone", "Multi", "Reversed", "OwnLogSpy",
               "NestSpy", "ChildSpy", "DerivedSpy"}

\* the bases named in each class statement
Bases(c) ==
    CASE c = "object" -> <<>>
      [] c \in {"SpyBase", "MyTestClass", "Probe", "Nest"} -> <<"object">>
      [] c \in {"SpyTestClass", "GetterOnlySpy", "GetterKeepSpy",
                "MismatchSpy", "OwnLogSpy"} -> <<"SpyBase", "MyTestClass">>
      [] c = "ProbeSpy" -> <<"SpyBase", "Probe">>
      [] c = "NestSpy" -> <<"SpyBase", "Nest">>
      [] c = "Child" -> <<"MyTestClass">>
      [] c = "ChildSpy" -> <<"SpyBase", "Child">>
      [] c = "DerivedSpy" -> <<"SpyTestClass">>
      [] c = "Alone" -> <<"SpyBase">>
      [] c = "Multi" -> <<"SpyBase", "Probe", "MyTestClass">>
      [] c = "Reversed" -> <<"MyTestClass", "SpyBase">>

\* the members each class statement declares in its own body
OwnDict(c) ==
    CASE c = "object" -> ObjectDict
      [] c = "SpyBase" -> SpyBaseDict
      [] c = "MyTestClass" -> MyTestClassDict
      [] c = "Probe" -> ProbeDict
      [] c = "Nest" -> NestDict
      [] c = "Child" -> ChildDict
      [] c = "SpyTestClass" -> SpyTestClassOwn
      [] c = "GetterOnlySpy" -> GetterOnlySpyOwn
      [] c = "GetterKeepSpy" -> GetterKeepSpyOwn
      [] c = "MismatchSpy" -> MismatchSpyOwn
      [] c = "OwnLogSpy" -> OwnLogSpyOwn
      [] c = "DerivedSpy" -> DerivedSpyOwn
      [] OTHER -> NoMembers

(***************************************************************************)
(* cls.__mro__: the C3 linearization.                                      *)
(***************************************************************************)
InTail(x, s) == \E i \in 2..Len(s) : s[i] = x

NonEmpty(s) == s # <<>>

DropHead(s, h) == IF s # <<>> /\ Head(s) = h THEN Tail(s) ELSE s

MroFailure == "<inconsistent mro>"

RECURSIVE Merge(_)
Merge(seqs) ==
    LET ne == SelectSeq(seqs, NonEmpty)
    IN IF ne = <<>> THEN <<>>
       ELSE LET good == {i \in 1..Len(ne) :
                           \A j \in 1..Len(ne) : ~InTail(Head(ne[i]), ne[j])}
            IN IF good = {} THEN <<MroFailure>>
               ELSE LET i == CHOOSE k \in good : \A m \in good : k <= m
                        h == Head(ne[i])
                    IN <<h>> \o Merge([j \in 1..Len(ne) |-> DropHead(ne[j], h)])

RECURSIVE Mro(_)
Mro(c) ==
    LET bs == Bases(c)
    IN <<c>> \o Merge([i \in 1..Len(bs) |-> Mro(bs[i])] \o <<bs>>)

Index(s, x) == CHOOSE i \in 1..Len(s) : s[i] = x /\ \A j \in 1..(i-1) : s[j] # x

(***************************************************************************)
(* Attribute lookup.                                                       *)
(***************************************************************************)
\* c.__dict__, for a class of the module or a spy class already defined
ClassDict(cs, c) == IF c \in DOMAIN cs THEN cs[c].dict ELSE OwnDict(c)

\* attribute lookup along an mro, from its i-th class on
RECURSIVE LookupFrom(_, _, _, _)
LookupFrom(cs, mro, i, name) ==
    IF i > Len(mro) THEN [found |-> FALSE, attr |-> Data(NoneV)]
    ELSE IF name \in DOMAIN ClassDict(cs, mro[i])
    THEN [found |-> TRUE, attr |-> ClassDict(cs, mro[i])[name]]
    ELSE LookupFrom(cs, mro, i + 1, name)

\* attribute lookup along the mro of class c
Lookup(cs, c, name) == LookupFrom(cs, cs[c].mro, 1, name)

\* cls._calls, every class but SpyBase having a list of its own
ClsCallsPerClass(cls) == IF cls = "SpyBase" THEN CallsList ELSE OwnCallsList

\* cls._calls: the list object the name reaches along the mro of cls
cls_calls(cls) ==
    LookupFrom(classes,
               IF cls \in DOMAIN classes THEN classes[cls].mro ELSE Mro(cls),
               1, "_calls").attr.val

\* the items of a list object
Items(list, st) == IF list = CallsList THEN st.calls ELSE st.own

RECURSIVE CallFunc(_, _, _, _)
RECURSIVE property__get__(_, _, _)
RECURSIVE property__set__(_, _, _, _)
RECURSIVE property__delete__(_, _, _)

(***************************************************************************)
(* The code of the members.  A call works on st = [calls, attrs]: the log  *)
(* and the attributes of the live instance; it yields the new st and the   *)
(* result (a returned value or a raised error).                            *)
(***************************************************************************)
SelfV == [t |-> "self", v |-> 0]

ClsV(c) == [t |-> "type", v |-> 0, name |-> c]

Outcome(st, result) == [st |-> st, result |-> result]

\* Python's binding of a call to a signature of nrecv receiver parameters
\* followed, when takesx, by one parameter named x
BindOk(pos, kwargs, nrecv, takesx) ==
    /\ Len(pos) >= nrecv
    /\ Len(pos) <= nrecv + (IF takesx THEN 1 ELSE 0)
    /\ Keys(kwargs) \subseteq (IF takesx THEN {"x"} ELSE {})
    /\ takesx => ((Len(pos) = nrecv + 1) # ("x" \in Keys(kwargs)))

BoundX(pos, kwargs, nrecv) ==
    IF Len(pos) = nrecv + 1 THEN pos[nrecv + 1] ELSE KwValue(kwargs, "x")

\* the return expressions of the members that take x
Compute(expr, x) ==
    CASE expr = "x + 1" -> x + 1
      [] expr = "x - 1" -> x - 1
      [] expr = "x * 2" -> x * 2
      [] expr = "x * -1" -> x * (-1)
      [] expr = "x + 2" -> x + 2
      [] expr = "x + 100" -> x + 100
      [] expr = "x - 100" -> x - 100
      [] expr = "5" -> 5
      [] expr = "6" -> 6
      [] expr = "7" -> 7
      [] expr = "70" -> 70
      [] expr = "9" -> 9

\* def f(<nrecv receivers>, x): return <expr>
ReturnsOfX(pos, kwargs, nrecv, st, expr) ==
    IF BindOk(pos, kwargs, nrecv, TRUE)
    THEN Outcome(st, Return(IntV(Compute(expr, BoundX(pos, kwargs, nrecv).v))))
    ELSE Outcome(st, Raise("TypeError"))

\* def f(self): return <value>
ReturnsConst(pos, kwargs, st, value) ==
    IF BindOk(pos, kwargs, 1, FALSE)
    THEN Outcome(st, Return(value))
    ELSE Outcome(st, Raise("TypeError"))

\* def f(self): raise <error>
Raises(pos, kwargs, st, error) ==
    IF BindOk(pos, kwargs, 1, FALSE)
    THEN Outcome(st, Raise(error))
    ELSE Outcome(st, Raise("TypeError"))

\* def f(self, x): raise <error>
RaisesOfX(pos, kwargs, st, error) ==
    IF BindOk(pos, kwargs, 1, TRUE)
    THEN Outcome(st, Raise(error))
    ELSE Outcome(st, Raise("TypeError"))

\* def f(self): self.<attr> = <value>
SetsAttr(pos, kwargs, st, attr, value) ==
    IF BindOk(pos, kwargs, 1, FALSE)
    THEN Outcome([st EXCEPT !.attrs[attr] = value], Return(NoneV))
    ELSE Outcome(st, Raise("TypeError"))

\* def f(self, x): self.<attr> = x
SetsAttrToX(pos, kwargs, st, attr) ==
    IF BindOk(pos, kwargs, 1, TRUE)
    THEN Outcome([st EXCEPT !.attrs[attr] = BoundX(pos, kwargs, 1)],
                 Return(NoneV))
    ELSE Outcome(st, Raise("TypeError"))

\* len(log) if log and log[-1].name == name else -1, for log = SpyBase._calls
LengthIfLast(st, name) ==
    IF st.calls # <<>> /\ st.calls[Len(st.calls)].name = name
    THEN IntV(Len(st.calls)) ELSE IntV(-1)

\* def f(<nrecv receivers>[, x]): return <LengthIfLast>
ReturnsLengthIfLast(pos, kwargs, nrecv, takesx, st, name) ==
    IF BindOk(pos, kwargs, nrecv, takesx)
    THEN Outcome(st, Return(LengthIfLast(st, name)))
    ELSE Outcome(st, Raise("TypeError"))

\* def f(self[, x]): self.<attr> = <LengthIfLast>
SetsAttrToLengthIfLast(pos, kwargs, takesx, st, attr, name) ==
    IF BindOk(pos, kwargs, 1, takesx)
    THEN Outcome([st EXCEPT !.attrs[attr] = LengthIfLast(st, name)],
                 Return(NoneV))
    ELSE Outcome(st, Raise("TypeError"))

\* def f(self, x): return self.<member>(x), self being the live instance
CallsMember(pos, kwargs, st, member) ==
    IF BindOk(pos, kwargs, 1, TRUE)
    THEN CallFunc(Lookup(classes, obj.cls, member).attr.func,
                  <<pos[1], BoundX(pos, kwargs, 1)>>, NoKwargs, st)
    ELSE Outcome(st, Raise("TypeError"))

Body(b, pos, kwargs, st) ==
    CASE b = "MyTestClass.__init__" ->
             SetsAttr(pos, kwargs, st, "normal_val", IntV(0))
      [] b = "MyTestClass.instance_method_normal" ->
             ReturnsOfX(pos, kwargs, 1, st, "x + 1")
      [] b = "MyTestClass.instance_method_towrap" ->
             ReturnsOfX(pos, kwargs, 1, st, "x - 1")
      [] b = "MyTestClass.static_method_normal" ->
             ReturnsOfX(pos, kwargs, 0, st, "x * 2")
      [] b = "MyTestClass.static_method_towrap" ->
             ReturnsOfX(pos, kwargs, 0, st, "x * -1")
      [] b = "MyTestClass.class_method_normal" ->
             ReturnsOfX(pos, kwargs, 1, st, "x + 100")
      [] b = "MyTestClass.class_method_towrap" ->
             ReturnsOfX(pos, kwargs, 1, st, "x - 100")
      [] b = "MyTestClass.property_normal.fget" ->
             ReturnsConst(pos, kwargs, st, IntV(42))
      [] b = "MyTestClass.property_normal.fset" ->
             SetsAttrToX(pos, kwargs, st, "normal_val")
      [] b = "MyTestClass.property_normal.fdel" ->
             SetsAttr(pos, kwargs, st, "normal_val", NoneV)
      [] b = "MyTestClass.property_towrap.fget" ->
             ReturnsConst(pos, kwargs, st, IntV(-1))
      [] b = "MyTestClass.property_towrap.fset" ->
             SetsAttrToX(pos, kwargs, st, "wrapped_val")
      [] b = "MyTestClass.property_towrap.fdel" ->
             SetsAttr(pos, kwargs, st, "wrapped_val", NoneV)
      [] b = "SpyTestClass.instance_method_towrap" ->
             ReturnsOfX(pos, kwargs, 1, st, "5")
      [] b = "SpyTestClass.static_method_towrap" ->
             ReturnsOfX(pos, kwargs, 0, st, "6")
      [] b = "SpyTestClass.class_method_towrap" ->
             ReturnsOfX(pos, kwargs, 1, st, "7")
      [] b = "SpyTestClass.property_towrap.fget" ->
             ReturnsConst(pos, kwargs, st, IntV(8))
      [] b = "SpyTestClass.property_towrap.fset" ->
             RaisesOfX(pos, kwargs, st, "SpyTestException: setter")
      [] b = "SpyTestClass.property_towrap.fdel" ->
             Raises(pos, kwargs, st, "SpyTestException: deleter")
      [] b = "GetterOnlySpy.property_normal.fget" ->
             ReturnsConst(pos, kwargs, st, IntV(8))
      [] b = "GetterKeepSpy.property_normal.fget" ->
             ReturnsConst(pos, kwargs, st, IntV(8))
      [] b = "MismatchSpy.class_method_normal" ->
             ReturnsOfX(pos, kwargs, 0, st, "9")
      [] b = "Probe.boom" ->
             RaisesOfX(pos, kwargs, st, "ValueError: boom")
      [] b = "Probe.ro.fget" ->
             ReturnsConst(pos, kwargs, st, IntV(7))
      [] b = "Probe.level.fget" ->
             ReturnsConst(pos, kwargs, st, IntV(10))
      [] b = "Probe.level.fset" ->
             RaisesOfX(pos, kwargs, st, "ValueError: level")
      [] b = "DerivedSpy.class_method_towrap" ->
             ReturnsOfX(pos, kwargs, 1, st, "70")
      [] b = "Child.child_method" ->
             ReturnsOfX(pos, kwargs, 1, st, "x + 2")
      [] b = "Nest.outer" -> CallsMember(pos, kwargs, st, "inner")
      [] b = "Nest.inner" ->
             ReturnsLengthIfLast(pos, kwargs, 1, TRUE, st, "inner")
      [] b = "Nest.s_seen" ->
             ReturnsLengthIfLast(pos, kwargs, 0, TRUE, st, "s_seen")
      [] b = "Nest.c_seen" ->
             ReturnsLengthIfLast(pos, kwargs, 1, TRUE, st, "c_seen")
      [] b = "Nest.seen.fget" ->
             ReturnsLengthIfLast(pos, kwargs, 1, FALSE, st, "seen.get")
      [] b = "Nest.seen.fset" ->
             SetsAttrToLengthIfLast(pos, kwargs, TRUE, st, "normal_val",
                                    "seen.set")
      [] b = "Nest.seen.fdel" ->
             SetsAttrToLengthIfLast(pos, kwargs, FALSE, st, "wrapped_val",
                                    "seen.del")
      [] b = "object.__init__" ->
             ReturnsConst(pos, kwargs, st, NoneV)
      [] OTHER -> Outcome(st, Raise("TypeError"))

(***************************************************************************)
(* The wrappers SpyBase builds, and what calling one does: append the      *)
(* CallInfo to cls._calls, then call the wrapped object.                   *)
(***************************************************************************)
_wrap_instance_method(cls, class_name, name, method) ==
    [tag |-> "wrapper", ctype |-> INSTANCE_METHOD, cls |-> cls,
     class_name |-> class_name, name |-> name, method |-> method]

_wrap_class_method(cls, class_name, name, method) ==
    [tag |-> "wrapper", ctype |-> CLASS_METHOD, cls |-> cls,
     class_name |-> class_name, name |-> name, method |-> method]

_wrap_static_method(cls, class_name, name, method) ==
    [tag |-> "wrapper", ctype |-> STATIC_METHOD, cls |-> cls,
     class_name |-> class_name, name |-> name, method |-> method]

PropertyAccessor(tag, cls, class_name, name, prop) ==
    [tag |-> tag, cls |-> cls, class_name |-> class_name, name |-> name,
     prop |-> prop]

\* _wrap_property, installing the three accessors whatever prop has
WrapPropertyAllAccessors(cls, class_name, name, prop) ==
    Property(PropertyAccessor("getter", cls, class_name, name, prop),
             PropertyAccessor("setter", cls, class_name, name, prop),
             PropertyAccessor("deleter", cls, class_name, name, prop))

_wrap_property(cls, class_name, name, prop) ==
    Property(
        IF prop.fget # NoneF
          THEN PropertyAccessor("getter", cls, class_name, name, prop) ELSE NoneF,
        IF prop.fset # NoneF
          THEN PropertyAccessor("setter", cls, class_name, name, prop) ELSE NoneF,
        IF prop.fdel # NoneF
          THEN PropertyAccessor("deleter", cls, class_name, name, prop) ELSE NoneF)

\* Logged, putting the record first
LoggedAtFront(st, cls, info) ==
    IF cls_calls(cls) = CallsList
    THEN [st EXCEPT !.calls = <<info>> \o @]
    ELSE [st EXCEPT !.own = <<info>> \o @]

\* cls._calls.append(info)
Logged(st, cls, info) ==
    IF cls_calls(cls) = CallsList
    THEN [st EXCEPT !.calls = Append(@, info)]
    ELSE [st EXCEPT !.own = Append(@, info)]

\* InstanceWrapper, logging the receiver among the arguments
InstanceWrapperLogsReceiver(w, pos, kwargs, st) ==
    IF Len(pos) < 1 THEN Outcome(st, Raise("TypeError"))
    ELSE CallFunc(w.method, pos, kwargs,
                  Logged(st, w.cls, CallInfo(INSTANCE_METHOD, w.class_name, w.name,
                                      pos, kwargs)))

\* InstanceWrapper, logging once the method has returned
InstanceWrapperLogsOnReturn(w, pos, kwargs, st) ==
    IF Len(pos) < 1 THEN Outcome(st, Raise("TypeError"))
    ELSE LET out == CallFunc(w.method, pos, kwargs, st)
         IN IF out.result.kind = "raise" THEN out
            ELSE Outcome(Logged(out.st, w.cls,
                                CallInfo(INSTANCE_METHOD, w.class_name, w.name,
                                         Tail(pos), kwargs)),
                         out.result)

\* def wrapper(self, *args, **kwargs) of _wrap_instance_method
InstanceWrapper(w, pos, kwargs, st) ==
    IF Len(pos) < 1 THEN Outcome(st, Raise("TypeError"))
    ELSE LET self == Head(pos)
             args == Tail(pos)
         IN CallFunc(w.method, <<self>> \o args, kwargs,
                     Logged(st, w.cls, CallInfo(INSTANCE_METHOD, w.class_name, w.name,
                                         args, kwargs)))

\* ClassWrapper, logging the class among the arguments
ClassWrapperLogsClass(w, pos, kwargs, st) ==
    IF Len(pos) < 1 THEN Outcome(st, Raise("TypeError"))
    ELSE CallFunc(w.method, pos, kwargs,
                  Logged(st, w.cls, CallInfo(CLASS_METHOD, w.class_name, w.name,
                                      pos, kwargs)))

\* def wrapper(inner_cls, *args, **kwargs) of _wrap_class_method
ClassWrapper(w, pos, kwargs, st) ==
    IF Len(pos) < 1 THEN Outcome(st, Raise("TypeError"))
    ELSE LET inner_cls == Head(pos)
             args == Tail(pos)
         IN CallFunc(w.method, <<inner_cls>> \o args, kwargs,
                     Logged(st, w.cls, CallInfo(CLASS_METHOD, w.class_name, w.name,
                                         args, kwargs)))

\* StaticWrapper, logging once the method has returned
StaticWrapperLogsOnReturn(w, pos, kwargs, st) ==
    LET out == CallFunc(w.method, pos, kwargs, st)
    IN Outcome(Logged(out.st, w.cls,
                      CallInfo(STATIC_METHOD, w.class_name, w.name, pos,
                               kwargs)),
               out.result)

\* def wrapper(*args, **kwargs) of _wrap_static_method
StaticWrapper(w, pos, kwargs, st) ==
    CallFunc(w.method, pos, kwargs,
             Logged(st, w.cls, CallInfo(STATIC_METHOD, w.class_name, w.name,
                                 pos, kwargs)))

\* def getter(self) of _wrap_property
Getter(w, pos, kwargs, st) ==
    IF ~BindOk(pos, kwargs, 1, FALSE) THEN Outcome(st, Raise("TypeError"))
    ELSE property__get__(w.prop, pos[1],
                         Logged(st, w.cls, CallInfo(PROPERTY, w.class_name,
                                             w.name \o ".get", <<>>, NoKwargs)))

\* Setter, logging no argument
SetterDropsValue(w, pos, kwargs, st) ==
    IF ~(Len(pos) = 2 /\ kwargs = NoKwargs) THEN Outcome(st, Raise("TypeError"))
    ELSE property__set__(w.prop, pos[1], pos[2],
                         Logged(st, w.cls, CallInfo(PROPERTY, w.class_name,
                                             w.name \o ".set", <<>>,
                                             NoKwargs)))

\* def setter(self, value) of _wrap_property
Setter(w, pos, kwargs, st) ==
    IF ~(Len(pos) = 2 /\ kwargs = NoKwargs) THEN Outcome(st, Raise("TypeError"))
    ELSE property__set__(w.prop, pos[1], pos[2],
                         Logged(st, w.cls, CallInfo(PROPERTY, w.class_name,
                                             w.name \o ".set", <<pos[2]>>,
                                             NoKwargs)))

\* Deleter, logging under the getter's name
DeleterNamedGet(w, pos, kwargs, st) ==
    IF ~BindOk(pos, kwargs, 1, FALSE) THEN Outcome(st, Raise("TypeError"))
    ELSE property__delete__(w.prop, pos[1],
                            Logged(st, w.cls, CallInfo(PROPERTY, w.class_name,
                                                w.name \o ".get", <<>>,
                                                NoKwargs)))

\* def deleter(self) of _wrap_property
Deleter(w, pos, kwargs, st) ==
    IF ~BindOk(pos, kwargs, 1, FALSE) THEN Outcome(st, Raise("TypeError"))
    ELSE property__delete__(w.prop, pos[1],
                            Logged(st, w.cls, CallInfo(PROPERTY, w.class_name,
                                                w.name \o ".del", <<>>,
                                                NoKwargs)))

\* f(*pos, **kwargs) for a function object f
CallFunc(f, pos, kwargs, st) ==
    CASE f.tag = "def" -> Body(f.body, pos, kwargs, st)
      [] f.tag = "wrapper" /\ f.ctype = INSTANCE_METHOD ->
             InstanceWrapper(f, pos, kwargs, st)
      [] f.tag = "wrapper" /\ f.ctype = CLASS_METHOD ->
             ClassWrapper(f, pos, kwargs, st)
      [] f.tag = "wrapper" /\ f.ctype = STATIC_METHOD ->
             StaticWrapper(f, pos, kwargs, st)
      [] f.tag = "getter" -> Getter(f, pos, kwargs, st)
      [] f.tag = "setter" -> Setter(f, pos, kwargs, st)
      [] f.tag = "deleter" -> Deleter(f, pos, kwargs, st)
      [] OTHER -> Outcome(st, Raise("TypeError"))

\* the descriptor protocol of the built-in property type
property__get__(prop, self, st) ==
    IF prop.fget = NoneF THEN Outcome(st, Raise("AttributeError"))
    ELSE CallFunc(prop.fget, <<self>>, NoKwargs, st)

property__set__(prop, self, value, st) ==
    IF prop.fset = NoneF THEN Outcome(st, Raise("AttributeError"))
    ELSE LET out == CallFunc(prop.fset, <<self, value>>, NoKwargs, st)
         IN IF out.result.kind = "raise" THEN out
            ELSE Outcome(out.st, Return(NoneV))

property__delete__(prop, self, st) ==
    IF prop.fdel = NoneF THEN Outcome(st, Raise("AttributeError"))
    ELSE LET out == CallFunc(prop.fdel, <<self>>, NoKwargs, st)
         IN IF out.result.kind = "raise" THEN out
            ELSE Outcome(out.st, Return(NoneV))

(***************************************************************************)
(* SpyBase.__init_subclass__.                                              *)
(***************************************************************************)
NotDefined == [defined |-> FALSE, mro |-> <<>>, dict |-> NoMembers]

\* cls.__mro__[cls.__mro__.index(SpyBase) + 1]; found is FALSE where the
\* code gets a ValueError or an IndexError
OriginalClass(mro) ==
    IF \A i \in 1..Len(mro) : mro[i] # "SpyBase"
    THEN [found |-> FALSE, cls |-> ""]
    ELSE LET spy_index == Index(mro, "SpyBase")
         IN IF spy_index + 1 > Len(mro)
            THEN [found |-> FALSE, cls |-> ""]
            ELSE [found |-> TRUE, cls |-> mro[spy_index + 1]]

\* Skipped, without the test for an override
SkippedDunderOnly(name, own) == StartsWithDunder(name)

\* Skipped, without the test for a dunder name
SkippedOverrideOnly(name, own) == name \in DOMAIN own

\* the two "continue" tests of the loop
Skipped(name, own) == StartsWithDunder(name) \/ name \in DOMAIN own

\* the isinstance chain: the kinds of attribute that get a wrapper
Handled(attr) ==
    attr.kind \in {"property", "staticmethod", "classmethod", "function"}

\* what setattr(cls, name, ...) installs for one attribute
WrapMember(cls, class_name, name, attr) ==
    CASE attr.kind = "property" -> _wrap_property(cls, class_name, name, attr)
      [] attr.kind = "staticmethod" ->
             StaticMethod(_wrap_static_method(cls, class_name, name, attr.func))
      [] attr.kind = "classmethod" ->
             ClassMethod(_wrap_class_method(cls, class_name, name, attr.func))
      [] attr.kind = "function" ->
             Function(_wrap_instance_method(cls, class_name, name, attr.func))

\* a property of the class body, completed by wrappers of the accessors of
\* prop that the class body did not redefine
PerAccessor(cls, class_name, name, mine, prop) ==
    Property(
        mine.fget,
        IF mine.fset \in {NoneF, prop.fset} /\ prop.fset # NoneF
          THEN PropertyAccessor("setter", cls, class_name, name, prop)
          ELSE mine.fset,
        IF mine.fdel \in {NoneF, prop.fdel} /\ prop.fdel # NoneF
          THEN PropertyAccessor("deleter", cls, class_name, name, prop)
          ELSE mine.fdel)

\* __init_subclass__, deciding the override accessor by accessor
InitSubclassPerAccessor(cs, mro, own) ==
    LET orig == OriginalClass(mro)
    IN IF ~orig.found THEN [raised |-> TRUE, dict |-> own]
       ELSE LET original_class == orig.cls
                odict == ClassDict(cs, original_class)
                wrapped == {n \in DOMAIN odict :
                              ~Skipped(n, own) /\ Handled(odict[n])}
                partial == {n \in (DOMAIN odict) \cap (DOMAIN own) :
                              /\ odict[n].kind = "property"
                              /\ own[n].kind = "property"}
            IN [raised |-> FALSE,
                dict |-> [n \in (DOMAIN own) \cup wrapped |->
                            IF n \in wrapped
                            THEN WrapMember(mro[1], original_class, n, odict[n])
                            ELSE IF n \in partial
                            THEN PerAccessor(mro[1], original_class, n, own[n],
                                             odict[n])
                            ELSE own[n]]]

\* __init_subclass__, wrapping every member reached from the wrapped class
\* on, inherited ones included
InitSubclassWrapsInherited(cs, mro, own) ==
    LET orig == OriginalClass(mro)
    IN IF ~orig.found THEN [raised |-> TRUE, dict |-> own]
       ELSE LET original_class == orig.cls
                from == Index(mro, "SpyBase") + 1
                names == UNION {DOMAIN ClassDict(cs, mro[i]) :
                                  i \in from..Len(mro)}
                wrapped == {n \in names :
                              /\ ~Skipped(n, own)
                              /\ Handled(LookupFrom(cs, mro, from, n).attr)}
            IN [raised |-> FALSE,
                dict |-> [n \in (DOMAIN own) \cup wrapped |->
                            IF n \in wrapped
                            THEN WrapMember(mro[1], original_class, n,
                                            LookupFrom(cs, mro, from, n).attr)
                            ELSE own[n]]]

\* __init_subclass__, doing nothing for a class derived from a spy class
InitSubclassOnceOnly(cs, mro, own) ==
    LET orig == OriginalClass(mro)
    IN IF ~orig.found THEN [raised |-> TRUE, dict |-> own]
       ELSE IF Len(mro) >= 2 /\ mro[2] \in SpyClasses
       THEN [raised |-> FALSE, dict |-> own]
       ELSE LET original_class == orig.cls
                odict == ClassDict(cs, original_class)
                wrapped == {n \in DOMAIN odict :
                              ~Skipped(n, own) /\ Handled(odict[n])}
            IN [raised |-> FALSE,
                dict |-> [n \in (DOMAIN own) \cup wrapped |->
                            IF n \in wrapped
                            THEN WrapMember(mro[1], original_class, n,
                                            odict[n])
                            ELSE own[n]]]

\* cls.__dict__ after the hook ran, or raised
__init_subclass__(cs, mro, own) ==
    LET orig == OriginalClass(mro)
    IN IF ~orig.found THEN [raised |-> TRUE, dict |-> own]
       ELSE LET original_class == orig.cls
                odict == ClassDict(cs, original_class)
                wrapped == {n \in DOMAIN odict :
                              ~Skipped(n, own) /\ Handled(odict[n])}
            IN [raised |-> FALSE,
                dict |-> [n \in (DOMAIN own) \cup wrapped |->
                            IF n \in wrapped
                            THEN WrapMember(mro[1], original_class, n, odict[n])
                            ELSE own[n]]]

(***************************************************************************)
(* The test programs explored: the spy classes a program defines, the      *)
(* members it uses, the argument shapes it calls them with, and the        *)
(* longest log it is followed to.                                          *)
(***************************************************************************)
Programs == {"test_instance_method_logged", "test_static_method_logged",
             "test_class_method_logged", "test_properties_logged",
             "sequence", "probe", "partial", "compose", "log", "shared",
             "nested", "observed_methods", "observed_property", "inherit",
             "derived"}

ProgramClasses(p) ==
    CASE p = "probe" -> {"ProbeSpy"}
      [] p = "partial" -> {"GetterOnlySpy", "GetterKeepSpy", "MismatchSpy"}
      [] p = "compose" -> {"Alone", "Multi", "Reversed"}
      [] p = "shared" -> {"SpyTestClass", "ProbeSpy", "OwnLogSpy"}
      [] p \in {"nested", "observed_methods", "observed_property"} ->
             {"NestSpy"}
      [] p = "inherit" -> {"ChildSpy"}
      [] p = "derived" -> {"SpyTestClass", "DerivedSpy"}
      [] OTHER -> {"SpyTestClass"}

ProgramNames(p) ==
    CASE p = "test_instance_method_logged" ->
             {"instance_method_normal", "instance_method_towrap"}
      [] p = "test_static_method_logged" ->
             {"static_method_normal", "static_method_towrap"}
      [] p = "test_class_method_logged" ->
             {"class_method_normal", "class_method_towrap"}
      [] p = "test_properties_logged" ->
             {"property_normal", "property_towrap"}
      [] p = "sequence" -> {"instance_method_normal", "static_method_normal",
                            "property_normal"}
      [] p = "probe" -> {"boom", "ro", "level"}
      [] p = "partial" -> {"property_normal", "class_method_normal"}
      [] p = "compose" -> {"boom", "instance_method_normal"}
      [] p = "log" -> {"instance_method_normal", "instance_method_towrap"}
      [] p = "shared" -> {"static_method_normal", "boom"}
      [] p = "nested" -> {"outer", "inner"}
      [] p = "observed_methods" -> {"s_seen", "c_seen"}
      [] p = "observed_property" -> {"seen"}
      [] p = "inherit" -> {"child_method", "instance_method_normal",
                           "property_normal"}
      [] p = "derived" -> {"instance_method_towrap", "class_method_towrap"}

Positional1 == [args |-> <<IntV(1)>>, kwargs |-> NoKwargs]

Positional4 == [args |-> <<IntV(4)>>, kwargs |-> NoKwargs]

Keyword2 == [args |-> <<>>, kwargs |-> {<<"x", IntV(2)>>}]

NoArgument == [args |-> <<>>, kwargs |-> NoKwargs]

ProgramShapes(p) ==
    CASE p \in {"test_instance_method_logged", "test_static_method_logged",
                "test_class_method_logged"} ->
             {Positional1, Positional4, Keyword2, NoArgument}
      [] p = "probe" -> {Positional1, NoArgument}
      [] OTHER -> {Positional1}

AssignedValues == {IntV(99)}

ProgramCap(p) == IF p \in {"sequence", "nested"} THEN MaxSeq ELSE MaxCalls

\* the classes a program calls get_calls and clear_calls on
ProgramLogClasses(p) ==
    CASE p = "log" -> {"SpyBase", "SpyTestClass"}
      [] p = "shared" -> {"SpyBase", "SpyTestClass", "ProbeSpy", "OwnLogSpy"}
      [] OTHER -> {"SpyBase"}

\* the programs that keep the list get_calls returned
ProgramKeeps(p) == p \in {"log"}

(***************************************************************************)
(* The state machine.                                                      *)
(***************************************************************************)
NoAttrs == [normal_val |-> [t |-> "unset", v |-> 0],
            wrapped_val |-> [t |-> "unset", v |-> 0]]

NoObj == [cls |-> "", attrs |-> NoAttrs]

State == [calls |-> calls, own |-> own_calls, attrs |-> obj.attrs]

\* nothing kept from get_calls
NotHeld == [ref |-> NoneV, items |-> <<>>, since |-> {}]

\* what the caller kept from get_calls: the list object returned, the items
\* it had then, and the statements executed since
Kept(list, st) == [ref |-> list, items |-> Items(list, st), since |-> {}]

Since(h, op, cls, name) ==
    IF h.ref = NoneV THEN h ELSE [h EXCEPT !.since = @ \cup {<<op, cls, name>>}]

Statement(op, cls, via, name, args, kwargs, result, before) ==
    [op |-> op, cls |-> cls, via |-> via, name |-> name, args |-> args,
     kwargs |-> kwargs, result |-> result, before |-> before, held |-> held]

Defined == {c \in SpyClasses : classes[c].defined}

\* create_git_repo has not been called
NotCalled ==
    [pc |-> "idle", dotgit |-> FALSE, result |-> "", cur |-> "", prev |-> "",
     args |-> <<>>, wrote |-> FALSE, failed |-> FALSE, after |-> 0,
     b |-> 0, c |-> 0, f |-> 0,
     base |-> "<None>", nfiles |-> 0, tag |-> "<None>"]

Init ==
    /\ program \in Programs
    /\ classes = [c \in SpyClasses |-> NotDefined]
    /\ obj = NoObj
    /\ calls = <<>>
    /\ own_calls = <<>>
    /\ held = NotHeld
    /\ git = NotCalled
    /\ last = [op |-> "init", cls |-> "", via |-> "", name |-> "",
               args |-> <<>>, kwargs |-> NoKwargs, result |-> Return(NoneV),
               before |-> [calls |-> <<>>, own |-> <<>>, attrs |-> NoAttrs],
               held |-> NotHeld]

\* the error a class statement ends with, "" when it creates the class
ClassFailure(mro, hook) ==
    IF \E i \in 1..Len(mro) : mro[i] = MroFailure THEN "TypeError"
    ELSE IF hook.raised
    THEN "Exception: SpyBase must be used as a mixin with another class"
    ELSE ""

\* class c(<bases>): <body>
DefineSpy(c) ==
    /\ c \in ProgramClasses(program) \ Defined
    /\ \A i \in 1..Len(Bases(c)) :
          Bases(c)[i] \in SpyClasses => Bases(c)[i] \in Defined
    /\ \E mro \in {Mro(c)} :
       \E hook \in {__init_subclass__(classes, mro, OwnDict(c))} :
       \E failure \in {ClassFailure(mro, hook)} :
          /\ classes' = IF failure # "" THEN classes
                        ELSE [classes EXCEPT ![c] = [defined |-> TRUE,
                                                     mro |-> mro,
                                                     dict |-> hook.dict]]
          /\ last' = Statement("class", c, "", "", <<>>, NoKwargs,
                               IF failure # "" THEN Raise(failure)
                               ELSE Return(NoneV), State)
          /\ held' = Since(held, "class", c, "")
    /\ UNCHANGED <<program, obj, calls, own_calls, git>>

\* s = c()
NewInstance(c) ==
    /\ c \in Defined
    /\ \E init \in {Lookup(classes, c, "__init__")} :
       \E out \in {CallFunc(init.attr.func, <<SelfV>>, NoKwargs,
                             [calls |-> calls, own |-> own_calls,
                              attrs |-> NoAttrs])} :
          /\ init.found
          /\ Len(out.st.calls) <= ProgramCap(program)
          /\ Len(out.st.own) <= ProgramCap(program)
          /\ calls' = out.st.calls
          /\ own_calls' = out.st.own
          /\ obj' = IF out.result.kind = "raise" THEN obj
                    ELSE [cls |-> c, attrs |-> out.st.attrs]
          /\ last' = Statement("new", c, "", "", <<>>, NoKwargs, out.result,
                               State)
          /\ held' = Since(held, "new", c, "")
    /\ UNCHANGED <<program, classes, git>>

\* the implicit first argument that binding a member of that kind supplies
Receiver(kind, c) ==
    CASE kind = "function" -> <<SelfV>>
      [] kind = "classmethod" -> <<ClsV(c)>>
      [] OTHER -> <<>>

\* the statement ends: the log and the instance are as the call left them
Finish(op, c, via, name, args, kwargs, out) ==
    /\ Len(out.st.calls) <= ProgramCap(program)
    /\ Len(out.st.own) <= ProgramCap(program)
    /\ calls' = out.st.calls
    /\ own_calls' = out.st.own
    /\ obj' = [obj EXCEPT !.attrs = out.st.attrs]
    /\ held' = Since(held, op, c, name)
    /\ last' = Statement(op, c, via, name, args, kwargs, out.result, State)

\* s.name(*args, **kwargs) (via = "instance") or c.name(*args, **kwargs)
Call(via, c, name, shape) ==
    /\ c \in Defined
    /\ name \in ProgramNames(program)
    /\ shape \in ProgramShapes(program)
    /\ via = "instance" => obj.cls = c
    /\ \E found \in {Lookup(classes, c, name)} :
          /\ found.found
          /\ \/ found.attr.kind \in {"staticmethod", "classmethod"}
             \/ found.attr.kind = "function" /\ via = "instance"
          /\ \E out \in {CallFunc(found.attr.func,
                                   Receiver(found.attr.kind, c) \o shape.args,
                                   shape.kwargs, State)} :
                Finish("call", c, via, name, shape.args, shape.kwargs, out)
    /\ UNCHANGED <<program, classes, git>>

\* s.name
GetAttr(name) ==
    /\ obj # NoObj
    /\ name \in ProgramNames(program)
    /\ \E found \in {Lookup(classes, obj.cls, name)} :
          /\ found.found
          /\ found.attr.kind = "property"
          /\ \E out \in {property__get__(found.attr, SelfV, State)} :
                Finish("get", obj.cls, "instance", name, <<>>, NoKwargs, out)
    /\ UNCHANGED <<program, classes, git>>

\* s.name = value
SetAttr(name, value) ==
    /\ obj # NoObj
    /\ name \in ProgramNames(program)
    /\ value \in AssignedValues
    /\ \E found \in {Lookup(classes, obj.cls, name)} :
          /\ found.found
          /\ found.attr.kind = "property"
          /\ \E out \in {property__set__(found.attr, SelfV, value, State)} :
                Finish("set", obj.cls, "instance", name, <<value>>, NoKwargs, out)
    /\ UNCHANGED <<program, classes, git>>

\* del s.name
DelAttr(name) ==
    /\ obj # NoObj
    /\ name \in ProgramNames(program)
    /\ \E found \in {Lookup(classes, obj.cls, name)} :
          /\ found.found
          /\ found.attr.kind = "property"
          /\ \E out \in {property__delete__(found.attr, SelfV, State)} :
                Finish("del", obj.cls, "instance", name, <<>>, NoKwargs, out)
    /\ UNCHANGED <<program, classes, git>>

\* cls.get_calls(), emptying the list it returns the items of
GetCallsDrains(cls) ==
    /\ cls \in ProgramLogClasses(program) \cap ({"SpyBase"} \cup Defined)
    /\ \E list \in {cls_calls(cls)} :
          /\ held' = IF ProgramKeeps(program)
                     THEN [ref |-> CopiedList, items |-> Items(list, State),
                           since |-> {}]
                     ELSE held
          /\ calls' = IF list = CallsList THEN <<>> ELSE calls
          /\ own_calls' = IF list = CallsList THEN own_calls ELSE <<>>
          /\ last' = Statement("get_calls", cls, "type", "get_calls", <<>>,
                               NoKwargs, Return(CopiedList), State)
    /\ UNCHANGED <<program, classes, obj, git>>

\* cls.get_calls(), handing the caller a new list with the same items
GetCallsReturnsCopy(cls) ==
    /\ cls \in ProgramLogClasses(program) \cap ({"SpyBase"} \cup Defined)
    /\ held' = IF ProgramKeeps(program)
               THEN [ref |-> CopiedList,
                     items |-> Items(cls_calls(cls), State), since |-> {}]
               ELSE held
    /\ last' = Statement("get_calls", cls, "type", "get_calls", <<>>,
                         NoKwargs, Return(CopiedList), State)
    /\ UNCHANGED <<program, classes, obj, calls, own_calls, git>>

\* cls.get_calls(), or got = cls.get_calls() in the programs that keep the
\* result
get_calls(cls) ==
    /\ cls \in ProgramLogClasses(program) \cap ({"SpyBase"} \cup Defined)
    /\ \E list \in {cls_calls(cls)} :
          /\ held' = IF ProgramKeeps(program) THEN Kept(list, State) ELSE held
          /\ last' = Statement("get_calls", cls, "type", "get_calls", <<>>,
                               NoKwargs, Return(list), State)
    /\ UNCHANGED <<program, classes, obj, calls, own_calls, git>>

\* cls.clear_calls(), removing the last record only
ClearCallsPopsOne(cls) ==
    /\ cls \in ProgramLogClasses(program) \cap ({"SpyBase"} \cup Defined)
    /\ \E list \in {cls_calls(cls)} :
          /\ calls' = IF list = CallsList /\ calls # <<>>
                      THEN SubSeq(calls, 1, Len(calls) - 1) ELSE calls
          /\ own_calls' = IF list # CallsList /\ own_calls # <<>>
                          THEN SubSeq(own_calls, 1, Len(own_calls) - 1)
                          ELSE own_calls
    /\ held' = Since(held, "clear_calls", cls, "clear_calls")
    /\ last' = Statement("clear_calls", cls, "type", "clear_calls", <<>>,
                         NoKwargs, Return(NoneV), State)
    /\ UNCHANGED <<program, classes, obj, git>>

\* cls.clear_calls()
clear_calls(cls) ==
    /\ cls \in ProgramLogClasses(program) \cap ({"SpyBase"} \cup Defined)
    /\ \E list \in {cls_calls(cls)} :
          /\ calls' = IF list = CallsList THEN <<>> ELSE calls
          /\ own_calls' = IF list = CallsList THEN own_calls ELSE <<>>
    /\ held' = Since(held, "clear_calls", cls, "clear_calls")
    /\ last' = Statement("clear_calls", cls, "type", "clear_calls", <<>>,
                         NoKwargs, Return(NoneV), State)
    /\ UNCHANGED <<program, classes, obj, git>>

Next ==
    \/ \E c \in ProgramClasses(program) : DefineSpy(c)
    \/ \E c \in ProgramClasses(program) : NewInstance(c)
    \/ \E via \in {"instance", "type"}, c \in ProgramClasses(program),
          name \in ProgramNames(program), shape \in ProgramShapes(program) :
          Call(via, c, name, shape)
    \/ \E name \in ProgramNames(program) : GetAttr(name)
    \/ \E name \in ProgramNames(program), value \in AssignedValues :
          SetAttr(name, value)
    \/ \E name \in ProgramNames(program) : DelAttr(name)
    \/ \E cls \in ProgramLogClasses(program) : get_calls(cls)
    \/ \E cls \in ProgramLogClasses(program) : clear_calls(cls)

Spec == Init /\ [][Next]_vars

(***************************************************************************)
(* git_maker.py: create_git_repo(repo).  The record git holds the position *)
(* of the call (pc), whether repo.path/.git existed, how the call ended    *)
(* (result), the last two things done (a git command or a file write: cur  *)
(* and prev) and the arguments of the last git command, the loop counters  *)
(* (b branches, c commits of the branch, f files of the commit begun) and  *)
(* the fields read from the branch and the commit at hand.  The repo is    *)
(* read as the loops reach it: at most MaxBranches branches of at most     *)
(* MaxCommits commits of at most MaxFiles files.                           *)
(***************************************************************************)
MaxBranches == 2

MaxCommits == 2

MaxFiles == 2

\* values of the optional fields GitBranch.base and GitCommit.tag
BranchBases == {"<None>", "", "main"}

CommitTags == {"<None>", "", "v1.0"}

\* "if branch.base:", "if commit.tag:"
Truthy(str) == str \notin {"<None>", ""}

\* the exit codes of a git subprocess
ReturnCodes == {0, 1}

\* something was done: a git command (with its arguments) or a file write;
\* after counts what is done once a git command has failed
Did(g, what, args) ==
    [g EXCEPT !.prev = g.cur, !.cur = what, !.args = args,
              !.wrote = @ \/ what = "write",
              !.after = IF g.failed THEN @ + 1 ELSE @]

\* run_git, going on whatever the exit code
RunGitIgnoresExitCode(g, args, returncode, then) ==
    LET ran == Did(g, args[1], args)
    IN IF returncode # 0
       THEN [ran EXCEPT !.failed = TRUE, !.pc = then]
       ELSE [ran EXCEPT !.pc = then]

\* run_git(cwd, *args) with the exit code the subprocess gave
run_git(g, args, returncode, then) ==
    LET ran == Did(g, args[1], args)
    IN IF returncode # 0
       THEN [ran EXCEPT !.failed = TRUE, !.result = "RuntimeError",
                        !.pc = "raised"]
       ELSE [ran EXCEPT !.pc = then]

\* create_git_repo(repo) is called: the test for .git, then mkdir
create_git_repo ==
    /\ git.pc = "called"
    /\ git' = IF git.dotgit
              THEN [git EXCEPT !.result = "FileExistsError", !.pc = "raised"]
              ELSE [git EXCEPT !.pc = "init"]
    /\ UNCHANGED spy_vars

\* run_git(repo.path, "init")
GitInit ==
    /\ git.pc = "init"
    /\ \E returncode \in ReturnCodes :
          git' = run_git(git, <<"init">>, returncode, "branches")
    /\ UNCHANGED spy_vars

\* for branch in repo.branches: the next branch, or the end of the list
\* and of the call
NextBranch ==
    /\ git.pc = "branches"
    /\ \/ /\ git.b < MaxBranches
          /\ \E base \in BranchBases :
                git' = [git EXCEPT !.b = @ + 1, !.c = 0, !.base = base,
                                   !.pc = "checkout"]
       \/ git' = [git EXCEPT !.result = "returned", !.pc = "returned"]
    /\ UNCHANGED spy_vars

\* run_git(repo.path, "checkout", "-b", branch.name[, branch.base])
Checkout ==
    /\ git.pc = "checkout"
    /\ \E returncode \in ReturnCodes :
          git' = run_git(git,
                         IF Truthy(git.base)
                         THEN <<"checkout", "-b", "name", git.base>>
                         ELSE <<"checkout", "-b", "name">>,
                         returncode, "commits")
    /\ UNCHANGED spy_vars

\* for commit in branch.commits: the next commit, or the end of the list
NextCommit ==
    /\ git.pc = "commits"
    /\ \/ /\ git.c < MaxCommits
          /\ \E nfiles \in 0..MaxFiles, tag \in CommitTags :
                git' = [git EXCEPT !.c = @ + 1, !.f = 0, !.nfiles = nfiles,
                                   !.tag = tag, !.pc = "files"]
       \/ git' = [git EXCEPT !.pc = "branches"]
    /\ UNCHANGED spy_vars

\* for f in commit.files: file_path.write_text(f.contents)
WriteFile ==
    /\ git.pc = "files"
    /\ git.f < git.nfiles
    /\ git' = [Did(git, "write", <<>>) EXCEPT !.f = @ + 1]
    /\ UNCHANGED spy_vars

\* run_git(repo.path, "add", ".")
Stage ==
    /\ git.pc = "files"
    /\ git.f = git.nfiles
    /\ \E returncode \in ReturnCodes :
          git' = run_git(git, <<"add", ".">>, returncode, "commit")
    /\ UNCHANGED spy_vars

\* run_git(repo.path, "commit", "-m", commit.message), then "if commit.tag:"
Commit ==
    /\ git.pc = "commit"
    /\ \E returncode \in ReturnCodes :
          git' = run_git(git, <<"commit", "-m", "message">>, returncode,
                         IF Truthy(git.tag) THEN "tag" ELSE "commits")
    /\ UNCHANGED spy_vars

\* run_git(repo.path, "tag", commit.tag)
Tag ==
    /\ git.pc = "tag"
    /\ \E returncode \in ReturnCodes :
          git' = run_git(git, <<"tag", git.tag>>, returncode, "commits")
    /\ UNCHANGED spy_vars

GitStart ==
    /\ program = "git_maker"
    /\ classes = [c \in SpyClasses |-> NotDefined]
    /\ obj = NoObj
    /\ calls = <<>>
    /\ own_calls = <<>>
    /\ held = NotHeld
    /\ last = [op |-> "init", cls |-> "", via |-> "", name |-> "",
               args |-> <<>>, kwargs |-> NoKwargs, result |-> Return(NoneV),
               before |-> [calls |-> <<>>, own |-> <<>>, attrs |-> NoAttrs],
               held |-> NotHeld]
    /\ \E dotgit \in BOOLEAN :
          git = [NotCalled EXCEPT !.pc = "called", !.dotgit = dotgit]

GitNext ==
    \/ create_git_repo
    \/ GitInit
    \/ NextBranch
    \/ Checkout
    \/ NextCommit
    \/ WriteFile
    \/ Stage
    \/ Commit
    \/ Tag

GitSpec == GitStart /\ [][GitNext]_vars

(***************************************************************************)
(* Vocabulary of the properties.                                           *)
(***************************************************************************)
\* the wrapped type of spy class c
WrappedType(c) == OriginalClass(Mro(c)).cls

Statements == {"call", "get", "set", "del"}

\* the spy class declares the member itself
Overridden(c, name) == name \in DOMAIN OwnDict(c)

\* the statement op on member name of spy class c uses a member that the
\* wrapped type declares, that the spy class does not declare, and that has
\* the code the statement needs
Intercepted(c, name, op) ==
    LET members == OwnDict(WrappedType(c))
    IN /\ name \in DOMAIN members
       /\ ~StartsWithDunder(name)
       /\ ~Overridden(c, name)
       /\ CASE op = "call" -> members[name].kind \in
                                {"function", "staticmethod", "classmethod"}
            [] op = "get" -> /\ members[name].kind = "property"
                             /\ members[name].fget # NoneF
            [] op = "set" -> /\ members[name].kind = "property"
                             /\ members[name].fset # NoneF
            [] op = "del" -> /\ members[name].kind = "property"
                             /\ members[name].fdel # NoneF
            [] OTHER -> FALSE

\* the class is SpyBase or a spy class that declares no list of its own:
\* its log is SpyBase._calls
SharesLog(c) == c = "SpyBase" \/ "_calls" \notin DOMAIN OwnDict(c)

\* the members of the wrapped type of c look at the log or call other
\* members
Observes(c) == WrappedType(c) = "Nest"

\* an intercepted statement of a spy class that logs to SpyBase._calls, on
\* a member that neither looks at the log nor calls another member
Forwarded(c, name, op) ==
    Intercepted(c, name, op) /\ SharesLog(c) /\ ~Observes(c)

\* what the statement does when made on attr itself, with no wrapper
Direct(attr, c, op, args, kwargs, before) ==
    CASE op = "call" -> CallFunc(attr.func, Receiver(attr.kind, c) \o args,
                                 kwargs, before)
      [] op = "get" -> property__get__(attr, SelfV, before)
      [] op = "set" -> property__set__(attr, SelfV, args[1], before)
      [] op = "del" -> property__delete__(attr, SelfV, before)

\* the statement made on the wrapped type's member
DirectOnWrapped(s) ==
    Direct(OwnDict(WrappedType(s.cls))[s.name], s.cls, s.op, s.args, s.kwargs,
           s.before)

\* the statement made on the spy class's own member
DirectOnOverride(s) ==
    Direct(OwnDict(s.cls)[s.name], s.cls, s.op, s.args, s.kwargs, s.before)

KindOf(c, name) == OwnDict(WrappedType(c))[name].kind

LastRecord == calls[Len(calls)]

(***************************************************************************)
(* C1: a call of an instance method that the wrapped type declares and the *)
(* spy class does not (dunder names apart, which the hook skips) returns   *)
(* what the wrapped type's method returns and appends exactly one record:  *)
(* type INSTANCE_METHOD, the wrapped type's name, the method's name, the   *)
(* arguments without the receiver.                                         *)
(***************************************************************************)
C1_InstanceMethodForwardedAndLogged ==
    (/\ last.op = "call"
     /\ Forwarded(last.cls, last.name, "call")
     /\ KindOf(last.cls, last.name) = "function")
    => /\ last.result = DirectOnWrapped(last).result
       /\ calls = Append(last.before.calls,
                         CallInfo(INSTANCE_METHOD, WrappedType(last.cls),
                                  last.name, last.args, last.kwargs))

C1_Witness ==
    /\ last.op = "call"
    /\ last.cls = "SpyTestClass"
    /\ last.name = "instance_method_normal"
    /\ last.args = <<IntV(4)>>
    /\ last.result = Return(IntV(5))
    /\ last.before.calls # <<>>
    /\ Len(calls) = Len(last.before.calls) + 1

(***************************************************************************)
(* C2: using a member that the spy class declares itself (whatever its     *)
(* kind, and whether or not the kind is that of the wrapped type's member  *)
(* of the same name) gives the override's own result or error and leaves   *)
(* the log as it was, whatever was logged before.                          *)
(***************************************************************************)
C2_OverrideNotLogged ==
    (/\ last.op \in Statements
     /\ Overridden(last.cls, last.name))
    => /\ last.result = DirectOnOverride(last).result
       /\ obj.attrs = DirectOnOverride(last).st.attrs
       /\ calls = last.before.calls

C2_Witness ==
    /\ last.op = "set"
    /\ last.cls = "SpyTestClass"
    /\ last.name = "property_towrap"
    /\ last.result = Raise("SpyTestException: setter")
    /\ calls # <<>>
    /\ calls = last.before.calls

\* the override of a class method by a static method is reached as well
C2_WitnessMismatch ==
    /\ last.op = "call"
    /\ last.cls = "MismatchSpy"
    /\ last.name = "class_method_normal"
    /\ last.result = Return(IntV(9))

(***************************************************************************)
(* C3: every statement on a forwarded member appends one record at the end *)
(* of the log and leaves the records before it as they were, so the log    *)
(* lists the calls in the order they were made, repeats included.          *)
(***************************************************************************)
RecordName(name, op) ==
    CASE op = "call" -> name
      [] op = "get" -> name \o ".get"
      [] op = "set" -> name \o ".set"
      [] op = "del" -> name \o ".del"

C3_LogInInvocationOrder ==
    (/\ last.op \in Statements
     /\ Forwarded(last.cls, last.name, last.op))
    => /\ Len(calls) = Len(last.before.calls) + 1
       /\ SubSeq(calls, 1, Len(last.before.calls)) = last.before.calls
       /\ LastRecord.name = RecordName(last.name, last.op)
       /\ LastRecord.args = last.args

\* calls f, g, f gave records f, g, f
C3_Witness ==
    /\ Len(calls) = 3
    /\ calls[1].name = "instance_method_normal"
    /\ calls[2].name = "static_method_normal"
    /\ calls[3] = calls[1]
    /\ last.op = "call"
    /\ last.name = "instance_method_normal"

(***************************************************************************)
(* C4: a call of a static method or class method that the wrapped type     *)
(* declares and the spy class does not, through an instance or through the *)
(* spy class, returns what the original returns and appends exactly one    *)
(* record: type STATIC_METHOD or CLASS_METHOD, the wrapped type's name,    *)
(* the member's name, the positional arguments without the class, the      *)
(* keyword arguments as given.                                             *)
(***************************************************************************)
C4_StaticAndClassMethodForwardedAndLogged ==
    (/\ last.op = "call"
     /\ Forwarded(last.cls, last.name, "call")
     /\ KindOf(last.cls, last.name) \in {"staticmethod", "classmethod"})
    => /\ last.result = DirectOnWrapped(last).result
       /\ calls = Append(last.before.calls,
                         CallInfo(IF KindOf(last.cls, last.name) = "staticmethod"
                                  THEN STATIC_METHOD ELSE CLASS_METHOD,
                                  WrappedType(last.cls), last.name, last.args,
                                  last.kwargs))

C4_Witness ==
    /\ last.op = "call"
    /\ last.cls = "SpyTestClass"
    /\ last.via = "type"
    /\ calls # <<>>
    /\ last.name = "class_method_normal"
    /\ last.kwargs = {<<"x", IntV(2)>>}
    /\ last.result = Return(IntV(102))
    /\ LastRecord = CallInfo(CLASS_METHOD, "MyTestClass", "class_method_normal",
                             <<>>, {<<"x", IntV(2)>>})

(***************************************************************************)
(* C5, as amended: reading, assigning v to and deleting a forwarded        *)
(* property each append exactly one record; the three records have the one *)
(* type PROPERTY and are told apart by their names, "p.get", "p.set" and   *)
(* "p.del", with args (), (v,) and ().                                     *)
(***************************************************************************)
C5_PropertyRecordsToldApartByName ==
    (/\ last.op \in {"get", "set", "del"}
     /\ Forwarded(last.cls, last.name, last.op))
    => /\ Len(calls) = Len(last.before.calls) + 1
       /\ LastRecord.type = PROPERTY
       /\ LastRecord.name = RecordName(last.name, last.op)
       /\ LastRecord.name \notin
              {RecordName(last.name, o) : o \in {"get", "set", "del"} \ {last.op}}
       /\ LastRecord.args = (IF last.op = "set" THEN <<last.args[1]>> ELSE <<>>)

\* read, assign 99, delete: three records in that order
C5_Witness ==
    /\ Len(calls) = 3
    /\ calls[1].name = "property_normal.get" /\ calls[1].args = <<>>
    /\ calls[2].name = "property_normal.set" /\ calls[2].args = <<IntV(99)>>
    /\ calls[3].name = "property_normal.del" /\ calls[3].args = <<>>
    /\ \A i \in 1..3 : calls[i].type = PROPERTY
    /\ last.op = "del"

PropertyNames ==
    {n \in (DOMAIN MyTestClassDict) \cup (DOMAIN ProbeDict) :
       IF n \in DOMAIN MyTestClassDict
       THEN MyTestClassDict[n].kind = "property"
       ELSE ProbeDict[n].kind = "property"}

\* C5 as first stated: the records of a read, of an assignment and of a
\* delete of a property have three distinct kinds
C5_ThreeDistinctKinds ==
    \A i, j \in 1..Len(calls) :
       (\E p \in PropertyNames, o1, o2 \in {"get", "set", "del"} :
           /\ o1 # o2
           /\ calls[i].name = RecordName(p, o1)
           /\ calls[j].name = RecordName(p, o2))
       => calls[i].type # calls[j].type

(***************************************************************************)
(* C6: a read, an assignment of v and a delete of a forwarded property     *)
(* do what the wrapped type's accessor does (same result, same effect on   *)
(* the instance) and each append one record of type PROPERTY with the      *)
(* wrapped type's name, named "p.get", "p.set", "p.del", with args (),     *)
(* (v,), () and no kwargs.                                                 *)
(***************************************************************************)
C6_PropertyForwardedAndLogged ==
    (/\ last.op \in {"get", "set", "del"}
     /\ Forwarded(last.cls, last.name, last.op))
    => /\ last.result = DirectOnWrapped(last).result
       /\ obj.attrs = DirectOnWrapped(last).st.attrs
       /\ calls = Append(last.before.calls,
                         CallInfo(PROPERTY, WrappedType(last.cls),
                                  RecordName(last.name, last.op), last.args,
                                  NoKwargs))

C6_Witness ==
    /\ last.op = "set"
    /\ last.cls = "SpyTestClass"
    /\ last.name = "property_normal"
    /\ calls # <<>>
    /\ last.before.attrs.normal_val = IntV(0)
    /\ obj.attrs.normal_val = IntV(99)
    /\ LastRecord = CallInfo(PROPERTY, "MyTestClass", "property_normal.set",
                             <<IntV(99)>>, NoKwargs)

(***************************************************************************)
(* C7: a class statement that does not combine SpyBase with exactly one    *)
(* wrapped class (SpyBase alone, or a composition that does not single one *)
(* out) fails; no such class is ever defined.                              *)
(***************************************************************************)
ExactlyOneWrapped(c) ==
    /\ Len(Bases(c)) = 2
    /\ Bases(c)[1] = "SpyBase"
    /\ Bases(c)[2] \notin {"SpyBase", "object"}

C7_CompositionRejected ==
    \A c \in SpyClasses : classes[c].defined => ExactlyOneWrapped(c)

(***************************************************************************)
(* C8, as amended: when the spy class redefines only the read accessor of  *)
(* a property, the hook leaves the whole property to the spy class: a      *)
(* read, an assignment and a delete append no record and do what the spy   *)
(* class's own property object does (an AttributeError where it has no     *)
(* such accessor, the wrapped type's accessor where it copied it).         *)
(***************************************************************************)
OnlyReadRedefined(c, name) ==
    LET mine == OwnDict(c)
        theirs == OwnDict(WrappedType(c))
    IN /\ name \in (DOMAIN mine) \cap (DOMAIN theirs)
       /\ mine[name].kind = "property"
       /\ theirs[name].kind = "property"
       /\ NoneF \notin {theirs[name].fget, theirs[name].fset, theirs[name].fdel}
       /\ mine[name].fget \notin {NoneF, theirs[name].fget}
       /\ mine[name].fset \in {NoneF, theirs[name].fset}
       /\ mine[name].fdel \in {NoneF, theirs[name].fdel}

C8_PartialOverrideLeavesPropertyUnwrapped ==
    (/\ last.op \in {"get", "set", "del"}
     /\ OnlyReadRedefined(last.cls, last.name))
    => /\ calls = last.before.calls
       /\ last.result = DirectOnOverride(last).result
       /\ obj.attrs = DirectOnOverride(last).st.attrs

\* the assignment reached the wrapped type's setter and nothing was logged
C8_Witness ==
    /\ last.op = "set"
    /\ last.cls = "GetterKeepSpy"
    /\ last.name = "property_normal"
    /\ obj.attrs.normal_val = IntV(99)
    /\ calls = last.before.calls

\* the assignment failed for want of a setter and nothing was logged
C8_WitnessNoSetter ==
    /\ last.op = "set"
    /\ last.cls = "GetterOnlySpy"
    /\ last.result = Raise("AttributeError")
    /\ calls = last.before.calls

\* C8 as first stated: the assignment and the delete are still forwarded
\* to the wrapped type's accessor and each appends its own record
C8_WriteAndDeleteStillLogged ==
    (/\ last.op \in {"set", "del"}
     /\ OnlyReadRedefined(last.cls, last.name))
    => /\ last.result = DirectOnWrapped(last).result
       /\ obj.attrs = DirectOnWrapped(last).st.attrs
       /\ calls = Append(last.before.calls,
                         CallInfo(PROPERTY, WrappedType(last.cls),
                                  RecordName(last.name, last.op), last.args,
                                  NoKwargs))

(***************************************************************************)
(* C9: for a forwarded property with a read accessor only, an assignment   *)
(* or a delete fails with AttributeError and appends no record, and the    *)
(* log never holds a set or del record of that property.                   *)
(***************************************************************************)
ReadOnly(c, name) ==
    /\ Forwarded(c, name, "get")
    /\ OwnDict(WrappedType(c))[name].fset = NoneF
    /\ OwnDict(WrappedType(c))[name].fdel = NoneF

C9_ReadOnlyPropertyNeverLogsWrite ==
    /\ (/\ last.op \in {"set", "del"}
        /\ ReadOnly(last.cls, last.name))
       => /\ last.result = Raise("AttributeError")
          /\ calls = last.before.calls
          /\ obj.attrs = last.before.attrs
    /\ \A c \in Defined :
         \A name \in DOMAIN OwnDict(WrappedType(c)) :
           ReadOnly(c, name) =>
             \A i \in 1..Len(calls) :
                calls[i].class_name = WrappedType(c) =>
                   calls[i].name \notin {RecordName(name, "set"),
                                         RecordName(name, "del")}

C9_Witness ==
    /\ last.op = "set"
    /\ last.cls = "ProbeSpy"
    /\ last.name = "ro"
    /\ last.result = Raise("AttributeError")
    /\ calls # <<>>
    /\ calls = last.before.calls

(***************************************************************************)
(* C10: when the original of a forwarded member raises, the caller gets    *)
(* that error and the log has grown by exactly the record of that call.    *)
(***************************************************************************)
C10_ForwardedErrorPropagatesAndIsLogged ==
    (/\ last.op \in Statements
     /\ Forwarded(last.cls, last.name, last.op)
     /\ DirectOnWrapped(last).result.kind = "raise")
    => /\ last.result = DirectOnWrapped(last).result
       /\ Len(calls) = Len(last.before.calls) + 1
       /\ SubSeq(calls, 1, Len(last.before.calls)) = last.before.calls
       /\ LastRecord.class_name = WrappedType(last.cls)
       /\ LastRecord.name = RecordName(last.name, last.op)

C10_Witness ==
    /\ last.op = "call"
    /\ last.name = "boom"
    /\ last.args = <<IntV(1)>>
    /\ last.result = Raise("ValueError: boom")
    /\ calls # <<>>
    /\ LastRecord = CallInfo(INSTANCE_METHOD, "Probe", "boom", <<IntV(1)>>,
                             NoKwargs)
    /\ Len(calls) = Len(last.before.calls) + 1

(***************************************************************************)
(* C11: get_calls changes neither the log nor the instance and hands back  *)
(* the whole log in the order the records were appended; when no statement *)
(* on an intercepted member and no clear_calls was executed since the      *)
(* caller's previous get_calls, it hands back the items it handed back     *)
(* then.                                                                   *)
(***************************************************************************)
\* the items the caller sees in the list it kept
Seen(h) ==
    IF h.ref \in {CallsList, OwnCallsList} THEN Items(h.ref, State) ELSE h.items

\* since the list was kept, no intercepted member was used and the log was
\* not cleared
Quiet(h) ==
    \A e \in h.since :
       /\ e[1] # "clear_calls"
       /\ ~(e[1] \in Statements /\ Intercepted(e[2], e[3], e[1]))

C11_GetCallsLeavesLogUnchanged ==
    last.op = "get_calls"
    => /\ calls = last.before.calls
       /\ own_calls = last.before.own
       /\ obj.attrs = last.before.attrs
       /\ ProgramKeeps(program)
          => /\ Seen(held) = last.before.calls
             /\ (last.held.ref # NoneV /\ Quiet(last.held))
                => Seen(held) = last.held.items

\* a second get_calls, after a call of an overridden member, over a log of
\* two records
C11_Witness ==
    /\ last.op = "get_calls"
    /\ last.held.ref # NoneV
    /\ Quiet(last.held)
    /\ <<"call", "SpyTestClass", "instance_method_towrap">> \in last.held.since
    /\ Len(calls) = 2
    /\ Seen(held) = calls

(***************************************************************************)
(* C12: clear_calls leaves the log of the class empty whatever it held, an *)
(* empty log included; a get_calls after it, with no statement on an       *)
(* intercepted member in between, hands back the empty list; and the first *)
(* record appended after it is at the first position of the log.           *)
(***************************************************************************)
\* the log of class c: the list of the class body that declares one, else
\* the list of SpyBase
LogOf(c) == IF SharesLog(c) THEN calls ELSE own_calls

\* since the list was kept the log was cleared and no intercepted member
\* was used
ClearedOnly(h) ==
    /\ h.ref # NoneV
    /\ \E e \in h.since : e[1] = "clear_calls"
    /\ \A e \in h.since : ~(e[1] \in Statements /\ Intercepted(e[2], e[3], e[1]))

C12_ClearCallsEmptiesLog ==
    /\ last.op = "clear_calls"
       => /\ LogOf(last.cls) = <<>>
          /\ obj.attrs = last.before.attrs
    /\ (last.op = "get_calls" /\ ProgramKeeps(program) /\ ClearedOnly(last.held))
       => Seen(held) = <<>>
    /\ (/\ last.op \in Statements
        /\ Forwarded(last.cls, last.name, last.op)
        /\ ClearedOnly(last.held))
       => /\ Len(calls) = 1
          /\ calls[1].name = RecordName(last.name, last.op)
          /\ calls[1].args = last.args

\* a log of two records was cleared, then cleared again
C12_Witness ==
    /\ last.op = "clear_calls"
    /\ Len(last.held.items) = 2
    /\ ClearedOnly(last.held)
    /\ last.before.calls = <<>>
    /\ calls = <<>>

\* a log of two records was cleared and the next call is its first record
C12_WitnessCallAfterClear ==
    /\ last.op = "call"
    /\ last.name = "instance_method_normal"
    /\ Len(last.held.items) = 2
    /\ ClearedOnly(last.held)
    /\ Len(calls) = 1

(***************************************************************************)
(* C13: the spy classes that declare no list of their own log to one list: *)
(* a statement on an intercepted member of any of them appends its record  *)
(* at the end of that list, after the records of the other spy classes;    *)
(* get_calls on SpyBase or on any of them hands back that list; and        *)
(* clear_calls on SpyBase or on any of them empties it.                    *)
(***************************************************************************)
C13_SpyClassesShareOneLog ==
    /\ (last.op \in Statements /\ Forwarded(last.cls, last.name, last.op))
       => /\ Len(calls) = Len(last.before.calls) + 1
          /\ SubSeq(calls, 1, Len(last.before.calls)) = last.before.calls
          /\ LastRecord.class_name = WrappedType(last.cls)
          /\ LastRecord.name = RecordName(last.name, last.op)
    /\ (last.op = "get_calls" /\ SharesLog(last.cls))
       => /\ last.result.val = CallsList
          /\ Items(last.result.val, State) = calls
    /\ (last.op = "clear_calls" /\ SharesLog(last.cls))
       => calls = <<>>

\* get_calls on one spy class hands back the record of the other spy class
\* followed by its own
C13_Witness ==
    /\ last.op = "get_calls"
    /\ last.cls = "SpyTestClass"
    /\ Len(calls) = 2
    /\ calls[1].class_name = "Probe"
    /\ calls[2].class_name = "MyTestClass"
    /\ Items(last.result.val, State) = calls

\* clear_calls on one spy class removes the record of the other
C13_WitnessClear ==
    /\ last.op = "clear_calls"
    /\ last.cls = "ProbeSpy"
    /\ Len(last.before.calls) = 1
    /\ last.before.calls[1].class_name = "MyTestClass"
    /\ calls = <<>>

\* the spy class that declares a list of its own logs to that list
C13_WitnessOwnStorage ==
    /\ last.op = "call"
    /\ last.cls = "OwnLogSpy"
    /\ calls = last.before.calls
    /\ Len(own_calls) = Len(last.before.own) + 1

(***************************************************************************)
(* C14: when the original of an intercepted member starts, the record of   *)
(* the call is the last entry of the log: an original that looks at the    *)
(* log finds it one record longer than before the call, ending with its    *)
(* own record, for every kind of wrapper; and a method that calls another  *)
(* intercepted method leaves its own record followed by the record of the  *)
(* method it called.                                                       *)
(***************************************************************************)
\* the log as the original finds it: one record longer, its own record last
SeenByOriginal(s) == IntV(Len(s.before.calls) + 1)

C14_RecordAppendedBeforeOriginalRuns ==
    (/\ last.op \in Statements
     /\ Intercepted(last.cls, last.name, last.op)
     /\ Observes(last.cls))
    => /\ (last.op = "call" /\ last.name \in {"inner", "s_seen", "c_seen"})
          => /\ last.result = Return(SeenByOriginal(last))
             /\ Len(calls) = Len(last.before.calls) + 1
             /\ LastRecord.name = last.name
       /\ last.op = "get" => last.result = Return(SeenByOriginal(last))
       /\ last.op = "set" => obj.attrs.normal_val = SeenByOriginal(last)
       /\ last.op = "del" => obj.attrs.wrapped_val = SeenByOriginal(last)
       /\ (last.op = "call" /\ last.name = "outer")
          => /\ Len(calls) = Len(last.before.calls) + 2
             /\ SubSeq(calls, 1, Len(last.before.calls)) = last.before.calls
             /\ calls[Len(calls) - 1].name = "outer"
             /\ calls[Len(calls)].name = "inner"
             /\ last.result = Return(IntV(Len(last.before.calls) + 2))

\* outer called inner: the records are outer, inner after an earlier record
C14_Witness ==
    /\ last.op = "call"
    /\ last.name = "outer"
    /\ Len(last.before.calls) = 1
    /\ Len(calls) = 3
    /\ calls[2].name = "outer"
    /\ calls[3].name = "inner"
    /\ last.result = Return(IntV(3))

\* the original setter found its own record last
C14_WitnessSetter ==
    /\ last.op = "set"
    /\ last.name = "seen"
    /\ Len(last.before.calls) = 1
    /\ obj.attrs.normal_val = IntV(2)

\* the original class method found its own record last
C14_WitnessClassMethod ==
    /\ last.op = "call"
    /\ last.name = "c_seen"
    /\ last.via = "type"
    /\ last.result = Return(IntV(1))

(***************************************************************************)
(* C15: a statement on a member that the wrapped type (the class after     *)
(* SpyBase in the mro) does not declare itself, because the wrapped type   *)
(* inherits it or because it comes from a base listed after the wrapped    *)
(* type, does what the member does and appends no record; and every record *)
(* names the wrapped type of a spy class and a member that type declares.  *)
(***************************************************************************)
\* the member is found past the wrapped type in the mro of spy class c
Inherited(c, name) ==
    /\ name \notin DOMAIN OwnDict(c)
    /\ name \notin DOMAIN OwnDict(WrappedType(c))
    /\ \E i \in 1..Len(Mro(c)) : name \in DOMAIN OwnDict(Mro(c)[i])

\* the class of the mro of c that declares the member
Declaring(c, name) ==
    Mro(c)[CHOOSE i \in 1..Len(Mro(c)) :
              /\ name \in DOMAIN OwnDict(Mro(c)[i])
              /\ \A j \in 1..(i - 1) : name \notin DOMAIN OwnDict(Mro(c)[j])]

C15_OnlyDirectMembersIntercepted ==
    /\ (last.op \in Statements /\ Inherited(last.cls, last.name))
       => /\ calls = last.before.calls
          /\ own_calls = last.before.own
          /\ last.result =
                Direct(OwnDict(Declaring(last.cls, last.name))[last.name],
                       last.cls, last.op, last.args, last.kwargs,
                       last.before).result
    /\ \A i \in 1..Len(calls) :
          \E c \in Defined :
             /\ calls[i].class_name = WrappedType(c)
             /\ \E n \in DOMAIN OwnDict(WrappedType(c)) :
                   calls[i].name \in {RecordName(n, op) : op \in Statements}

\* a method the wrapped type inherits ran and left the log, which holds a
\* record of the wrapped type's own method, as it was
C15_Witness ==
    /\ last.op = "call"
    /\ last.cls = "ChildSpy"
    /\ last.name = "instance_method_normal"
    /\ last.result = Return(IntV(2))
    /\ Len(calls) = 1
    /\ calls[1].class_name = "Child"
    /\ calls[1].name = "child_method"
    /\ calls = last.before.calls

\* a method of a base listed after the wrapped type ran and left the log
\* as it was
C15_WitnessFurtherBase ==
    /\ last.op = "call"
    /\ last.cls = "Multi"
    /\ last.name = "instance_method_normal"
    /\ last.result = Return(IntV(2))
    /\ Len(calls) = 1
    /\ calls[1].class_name = "Probe"
    /\ calls = last.before.calls

(***************************************************************************)
(* C16: a class statement, the creation of an instance (its __init__ is    *)
(* not intercepted), a statement on a member the spy class declares itself *)
(* and get_calls leave the log as it was; and whenever a statement leaves  *)
(* the log different, either it is clear_calls and the log is empty, or it *)
(* is a statement on an intercepted member and the log is the earlier log  *)
(* followed by new records: exactly one, unless the original itself called *)
(* an intercepted member.                                                  *)
(***************************************************************************)
\* log is earlier followed by at least one record
Extends(log, earlier) ==
    /\ Len(log) > Len(earlier)
    /\ SubSeq(log, 1, Len(earlier)) = earlier

C16_LogChangesOnlyByInterceptedCallOrClear ==
    /\ last.op \in {"init", "class", "new", "get_calls"}
       => calls = last.before.calls /\ own_calls = last.before.own
    /\ (last.op \in Statements /\ Overridden(last.cls, last.name))
       => calls = last.before.calls /\ own_calls = last.before.own
    /\ calls # last.before.calls
       => \/ last.op = "clear_calls" /\ SharesLog(last.cls) /\ calls = <<>>
          \/ /\ last.op \in Statements
             /\ Intercepted(last.cls, last.name, last.op)
             /\ SharesLog(last.cls)
             /\ Extends(calls, last.before.calls)
             /\ ~Observes(last.cls) => Len(calls) = Len(last.before.calls) + 1
    /\ own_calls # last.before.own
       => \/ last.op = "clear_calls" /\ ~SharesLog(last.cls) /\ own_calls = <<>>
          \/ /\ last.op \in Statements
             /\ Intercepted(last.cls, last.name, last.op)
             /\ ~SharesLog(last.cls)
             /\ Len(own_calls) = Len(last.before.own) + 1
             /\ Extends(own_calls, last.before.own)

\* an instance was created, its __init__ ran, and the log of two records
\* is as it was
C16_Witness ==
    /\ last.op = "new"
    /\ last.cls = "SpyTestClass"
    /\ last.result = Return(NoneV)
    /\ obj.attrs.normal_val = IntV(0)
    /\ Len(calls) = 2
    /\ calls = last.before.calls

\* a spy class was defined and the log of one record is as it was
C16_WitnessClass ==
    /\ last.op = "class"
    /\ last.cls = "ProbeSpy"
    /\ Len(calls) = 1
    /\ calls = last.before.calls

(***************************************************************************)
(* C17: for a class derived from a spy class, the hook runs again with the *)
(* same wrapped type and wraps every member of the wrapped type that the   *)
(* derived class does not declare itself, those the parent spy class       *)
(* overrides included: a statement on such a member does what the wrapped  *)
(* type's original does, not what the parent's override does, and appends  *)
(* one record naming the wrapped type.                                     *)
(***************************************************************************)
\* the spy classes among the bases of c
SpyParents(c) ==
    IF c \in SpyClasses
    THEN {Bases(c)[i] : i \in 1..Len(Bases(c))} \cap SpyClasses
    ELSE {}

C17_DerivedSpyClassIsWrappedAgain ==
    \A parent \in SpyParents(last.cls) :
       /\ WrappedType(last.cls) = WrappedType(parent)
       /\ (/\ last.op \in Statements
           /\ Forwarded(last.cls, last.name, last.op))
          => /\ last.result = DirectOnWrapped(last).result
             /\ obj.attrs = DirectOnWrapped(last).st.attrs
             /\ Len(calls) = Len(last.before.calls) + 1
             /\ SubSeq(calls, 1, Len(last.before.calls)) = last.before.calls
             /\ LastRecord.class_name = WrappedType(parent)
             /\ LastRecord.name = RecordName(last.name, last.op)
             /\ LastRecord.args = last.args
             /\ LastRecord.kwargs = last.kwargs

\* the parent spy class overrides instance_method_towrap to return 5; on
\* the derived class the call returned x - 1 and was logged
C17_Witness ==
    /\ last.op = "call"
    /\ last.cls = "DerivedSpy"
    /\ last.name = "instance_method_towrap"
    /\ Overridden("SpyTestClass", "instance_method_towrap")
    /\ last.args = <<IntV(1)>>
    /\ last.result = Return(IntV(0))
    /\ calls = Append(last.before.calls,
                      CallInfo(INSTANCE_METHOD, "MyTestClass",
                               "instance_method_towrap", <<IntV(1)>>, NoKwargs))

\* the member the derived class declares itself is not wrapped
C17_WitnessOwnMember ==
    /\ last.op = "call"
    /\ last.cls = "DerivedSpy"
    /\ last.name = "class_method_towrap"
    /\ last.result = Return(IntV(70))
    /\ calls = last.before.calls

(***************************************************************************)
(* C18: the list get_calls handed back is the log itself: whatever is      *)
(* executed after it, the caller who kept the list sees in it the log as   *)
(* it is now, the records appended since included, and sees it empty once  *)
(* the log was cleared.                                                    *)
(***************************************************************************)
C18_GetCallsReturnsLiveList ==
    held.ref # NoneV => Seen(held) = calls

\* the list was kept when the log was empty and now shows two records
C18_Witness ==
    /\ held.ref # NoneV
    /\ held.items = <<>>
    /\ last.op = "call"
    /\ Len(calls) = 2
    /\ Seen(held) = calls

\* the list was kept with two records and shows none after clear_calls
C18_WitnessCleared ==
    /\ held.ref # NoneV
    /\ Len(held.items) = 2
    /\ last.op = "clear_calls"
    /\ Seen(held) = <<>>

(***************************************************************************)
(* C19: create_git_repo does things in the order init; per branch a        *)
(* checkout (naming the base when the branch has one); per commit the file *)
(* writes, then add, then commit, then tag when the commit has a non-empty *)
(* tag.  When .git exists it raises FileExistsError having run no command  *)
(* and written no file.  When a git command exits non-zero it raises       *)
(* RuntimeError and nothing is run or written after that command.          *)
(***************************************************************************)
\* what may come directly before each thing done
ComesAfter(what) ==
    CASE what = "init" -> {""}
      [] what = "checkout" -> {"init", "checkout", "commit", "tag"}
      [] what = "write" -> {"checkout", "commit", "tag", "write"}
      [] what = "add" -> {"checkout", "commit", "tag", "write"}
      [] what = "commit" -> {"add"}
      [] what = "tag" -> {"commit"}
      [] OTHER -> {}

\* the checkout command of the branch at hand
CheckoutArgs ==
    IF Truthy(git.base) THEN <<"checkout", "-b", "name", git.base>>
    ELSE <<"checkout", "-b", "name">>

\* the last thing done is the last step of the commit at hand
CommitComplete ==
    /\ git.f = git.nfiles
    /\ IF Truthy(git.tag)
       THEN git.cur = "tag" /\ git.args = <<"tag", git.tag>>
       ELSE git.cur = "commit"

C19_CommandsInSequenceUntilFirstFailure ==
    /\ git.cur # "" => git.prev \in ComesAfter(git.cur)
    /\ git.pc \in {"called", "init"} => git.cur = "" /\ ~git.wrote
    /\ git.pc \in {"branches", "checkout", "returned"}
       => /\ git.cur \in {"init", "checkout", "commit", "tag"}
          /\ git.cur = "init" <=> (git.b = 0 \/ (git.b = 1 /\ git.pc = "checkout"))
    /\ (git.pc = "commits" /\ git.c = 0)
       => git.cur = "checkout" /\ git.args = CheckoutArgs
    /\ (git.pc = "commits" /\ git.c > 0) => CommitComplete
    /\ git.pc = "files"
       => /\ git.f <= git.nfiles
          /\ git.f > 0 => git.cur = "write"
          /\ git.f = 0 => git.cur \in {"checkout", "commit", "tag"}
    /\ git.pc = "commit" => git.cur = "add" /\ git.f = git.nfiles
    /\ git.pc = "tag"
       => git.cur = "commit" /\ git.f = git.nfiles /\ Truthy(git.tag)
    /\ git.dotgit
       => /\ git.cur = "" /\ ~git.wrote
          /\ git.pc \in {"called", "raised"}
          /\ git.pc = "raised" => git.result = "FileExistsError"
    /\ git.failed
       => /\ git.result = "RuntimeError"
          /\ git.pc = "raised"
          /\ git.after = 0
          /\ git.cur \in {"init", "checkout", "add", "commit", "tag"}
          /\ git.cur = "checkout" => git.args = CheckoutArgs
          /\ git.cur \in {"add", "commit", "tag"} => git.f = git.nfiles
          /\ git.cur = "tag" => Truthy(git.tag)
    /\ git.result = "returned" => ~git.failed /\ git.pc = "returned"
    /\ git.result = "RuntimeError" => git.failed

\* the second commit of the second branch was tagged, and the tag command
\* failed
C19_Witness ==
    /\ git.b = 2
    /\ git.c = 2
    /\ git.f = 2
    /\ git.cur = "tag"
    /\ git.prev = "commit"
    /\ git.failed
    /\ git.result = "RuntimeError"

\* .git existed: the call raised at once
C19_WitnessExists ==
    /\ git.dotgit
    /\ git.result = "FileExistsError"
    /\ git.cur = ""

\* the call returned after a commit with an empty tag, which ran no tag
\* command
C19_WitnessReturned ==
    /\ git.result = "returned"
    /\ git.b = 2
    /\ git.c = 1
    /\ git.tag = ""
    /\ git.cur = "commit"

====
